---- MODULE Spec2Model ----
(***************************************************************************)
(* tudoh: position synchronisation between browser clients                 *)
(* (src/client/src/main.ts, lines 1-286) and the Bun WebSocket server      *)
(* (src/server/src/index.ts).                                              *)
(*                                                                         *)
(* Connection identifiers (crypto.randomUUID()) are the numbers            *)
(* 1..MaxConns, handed out in increasing order and never reused; 0 stands  *)
(* for the empty string that myId holds before the first welcome.          *)
(* A message is the JSON object itself: a record whose domain is the set   *)
(* of keys present in the object.                                          *)
(***************************************************************************)
EXTENDS Integers, Sequences, FiniteSets, TLC

\* ------------------------------------------------------------------ bounds
MaxConns == 3       \* connection ids
MaxConnects == 2    \* connect() calls of the browser client
MaxFrames == 2      \* frames of the browser client that change something
MaxSends == 3       \* messages sent by peers
\* the budgets of Spec, where browser client and peers run together
SysFrames == MaxFrames - 1
SysSends == MaxSends - 2

\* ------------------------------------------------------- program constants
TILE == 32
MAP_W == 20
MAP_H == 15
SPEED == 3
pad == 4

\* The browser client whose program is main.ts. Every other connection is a
\* peer that sends what it likes (PeerMsgs) and whose inbox is not followed.
Clients == {"c1"}
ConnIds == 1..MaxConns

\* Sets of held keys a frame of the protocol specification may see.
KeySets == { {}, {"ArrowRight"}, {"a", "d"} }

\* Sets of held keys a frame of the movement specification may see: none,
\* the four directions and the four diagonals.
MoveKeys ==
  { {}, {"ArrowUp"}, {"ArrowDown"}, {"ArrowLeft"}, {"ArrowRight"},
    {"ArrowUp", "ArrowLeft"}, {"ArrowUp", "ArrowRight"},
    {"ArrowDown", "ArrowLeft"}, {"ArrowDown", "ArrowRight"} }

VARIABLES
  \* server (index.ts)
  players,      \* Map<string, Player>: sequence of Player in insertion order
  sockets,      \* Map<string, ServerWebSocket>: the keys
  dirty,        \* Set<string>: sequence of ids in insertion order
  nextId,       \* the next fresh connection id
  \* network
  inbox,        \* per connection: server -> client messages in flight
  c2s,          \* per connection: client -> server messages in flight
  sends,        \* number of messages peers have sent
  \* client (main.ts), one value per client
  st,           \* state of the socket made by the latest connect()
  conn,         \* the connection id of that socket (0: none yet)
  wsState,      \* readyState of the socket the variable ws refers to
  myId, px, py, facing, walking, currentRoom,
  others,       \* Map<string, OtherPlayer>
  lastSentX, lastSentY,
  frames,       \* number of update() calls that changed something
  connects,     \* number of connect() calls
  got,          \* messages handled on the current socket (2: two or more)
  \* history
  sentFacing, sentWalking,  \* facing and walking of the last move sent
  lastMove,     \* per connection: the Player of its last accepted move
  unrelayed,    \* per connection: moves accepted since the last tick
                \* (2: two or more)
  relayed,      \* the value of unrelayed that the last tick found
  ev,           \* the handler that ran last
  out           \* the ws.send calls that handler made, in order

srvVars == <<players, sockets, dirty, nextId>>
netVars == <<inbox, c2s, sends>>
cliVars == <<st, conn, wsState, myId, px, py, facing, walking, currentRoom,
             others, lastSentX, lastSentY, frames, connects, got>>
histVars == <<sentFacing, sentWalking, lastMove, unrelayed, relayed, ev,
              out>>
vars == <<srvVars, netVars, cliVars, histVars>>

\* ------------------------------------------------------------- map, rooms
rooms ==
  << [id |-> "room-a", x |-> 2, y |-> 2, w |-> 5, h |-> 4],
     [id |-> "room-b", x |-> 13, y |-> 2, w |-> 5, h |-> 4],
     [id |-> "room-c", x |-> 2, y |-> 9, w |-> 5, h |-> 4] >>

RoomWall(room, rx, ry) ==
  /\ rx >= room.x /\ rx < room.x + room.w
  /\ ry >= room.y /\ ry < room.y + room.h
  /\ LET isTop == ry = room.y
         isBottom == ry = room.y + room.h - 1
         isLeft == rx = room.x
         isRight == rx = room.x + room.w - 1
         isDoor == isBottom /\ rx = room.x + (room.w \div 2)
     IN (isTop \/ isBottom \/ isLeft \/ isRight) /\ ~isDoor

map ==
  [y \in 0..(MAP_H - 1) |->
    [x \in 0..(MAP_W - 1) |->
      IF \/ y = 0 \/ y = MAP_H - 1 \/ x = 0 \/ x = MAP_W - 1
         \/ \E i \in DOMAIN rooms : RoomWall(rooms[i], x, y)
      THEN 1 ELSE 0]]

\* faulty variant: a corner is tested against the map's bounds only
CornerOkInBounds(cx, cy) ==
  LET tx == cx \div TILE
      ty == cy \div TILE
  IN tx >= 0 /\ tx < MAP_W /\ ty >= 0 /\ ty < MAP_H

CornerOk(cx, cy) ==
  LET tx == cx \div TILE
      ty == cy \div TILE
  IN /\ tx >= 0 /\ tx < MAP_W /\ ty >= 0 /\ ty < MAP_H
     /\ map[ty][tx] = 0

canMove(x, y) ==
  /\ CornerOk(x + pad, y + pad)
  /\ CornerOk(x + TILE - pad - 1, y + pad)
  /\ CornerOk(x + pad, y + TILE - pad - 1)
  /\ CornerOk(x + TILE - pad - 1, y + TILE - pad - 1)

RECURSIVE RoomFrom(_, _, _)
RoomFrom(i, cx, cy) ==
  IF i > Len(rooms) THEN "null"
  ELSE IF /\ cx >= rooms[i].x /\ cx < rooms[i].x + rooms[i].w
          /\ cy >= rooms[i].y /\ cy < rooms[i].y + rooms[i].h
       THEN rooms[i].id
       ELSE RoomFrom(i + 1, cx, cy)

detectRoom(x, y) ==
  RoomFrom(1, (x + TILE \div 2) \div TILE, (y + TILE \div 2) \div TILE)

\* ------------------------------------------------------ movement (client)
Up(keys) == "ArrowUp" \in keys \/ "w" \in keys
Down(keys) == "ArrowDown" \in keys \/ "s" \in keys
Left(keys) == "ArrowLeft" \in keys \/ "a" \in keys
Right(keys) == "ArrowRight" \in keys \/ "d" \in keys

\* nx, ny after the four key tests of update()
CandX(x, keys) ==
  x - (IF Left(keys) THEN SPEED ELSE 0) + (IF Right(keys) THEN SPEED ELSE 0)
CandY(y, keys) ==
  y - (IF Up(keys) THEN SPEED ELSE 0) + (IF Down(keys) THEN SPEED ELSE 0)

\* facing is assigned by each key test in turn: the last one held wins
NewFacing(f, keys) ==
  IF Right(keys) THEN "right"
  ELSE IF Left(keys) THEN "left"
  ELSE IF Down(keys) THEN "down"
  ELSE IF Up(keys) THEN "up"
  ELSE f

Moved(keys) == Up(keys) \/ Down(keys) \/ Left(keys) \/ Right(keys)

\* faulty variant: the horizontal delta is committed without the test
StepXAlways(x, y, keys) == CandX(x, keys)

\* if (canMove(nx, py)) px = nx;
StepX(x, y, keys) == IF canMove(CandX(x, keys), y) THEN CandX(x, keys) ELSE x
\* faulty variant: the vertical test at the x the frame started from
StepYOldX(x, y, keys) ==
  IF canMove(x, CandY(y, keys)) THEN CandY(y, keys) ELSE y

\* if (canMove(px, ny)) py = ny;   px is the value StepX has just set
StepY(x, y, keys) ==
  IF canMove(StepX(x, y, keys), CandY(y, keys)) THEN CandY(y, keys) ELSE y

\* ------------------------------------------------------------- messages
NoMsg == [type |-> "none"]
Welcome(id) == [type |-> "welcome", id |-> id]
FullMsg(ps) == [type |-> "players", players |-> ps, full |-> TRUE]
PlayersMsg(ps) == [type |-> "players", players |-> ps]
Leave(id) == [type |-> "leave", id |-> id]
MoveMsg(x, y, f, w) ==
  [type |-> "move", x |-> x, y |-> y, name |-> "Player", facing |-> f,
   walking |-> w]

\* msg.k ?? d
Get(msg, k, d) == IF k \in DOMAIN msg THEN msg[k] ELSE d

Range(s) == { s[i] : i \in DOMAIN s }

\* --------------------------------------------------- server data structures
NoPlayer ==
  [id |-> 0, x |-> 0, y |-> 0, name |-> "", facing |-> "", walking |-> FALSE]

Has(ps, id) == \E i \in DOMAIN ps : ps[i].id = id
PlayerGet(ps, id) == ps[CHOOSE i \in DOMAIN ps : ps[i].id = id]

\* faulty variant: set() that keeps the value of a present key
PlayerSetIfAbsent(ps, p) == IF Has(ps, p.id) THEN ps ELSE Append(ps, p)

\* players.set(id, p): a present key keeps its place, a new key goes last
PlayerSet(ps, p) ==
  IF Has(ps, p.id)
  THEN [i \in DOMAIN ps |-> IF ps[i].id = p.id THEN p ELSE ps[i]]
  ELSE Append(ps, p)

\* faulty variant: delete() that removes nothing
PlayerDeleteNone(ps, id) == ps

\* players.delete(id)
PlayerDelete(ps, id) == SelectSeq(ps, LAMBDA q : q.id # id)

\* faulty variant: dirty kept as an array, push() instead of add()
DirtyAddArray(d, id) == Append(d, id)

\* dirty.add(id)
DirtyAdd(d, id) == IF id \in Range(d) THEN d ELSE Append(d, id)

\* faulty variant: no defaults for the optional fields
PlayerOfNoDefault(id, msg) ==
  [id |-> id, x |-> msg.x, y |-> msg.y,
   name |-> Get(msg, "name", ""),
   facing |-> Get(msg, "facing", ""),
   walking |-> Get(msg, "walking", FALSE)]

\* faulty variant: clear() that keeps the set
DirtyKeep(d) == d

\* dirty.clear()
DirtyClear(d) == <<>>

\* the Player a move from connection id stores
PlayerOf(id, msg) ==
  [id |-> id, x |-> msg.x, y |-> msg.y,
   name |-> Get(msg, "name", "???"),
   facing |-> Get(msg, "facing", "down"),
   walking |-> Get(msg, "walking", FALSE)]

\* faulty variant: an id without an entry is not skipped
UpdatesNoSkip(d, ps) ==
  [i \in 1..Len(d) |-> IF Has(ps, d[i]) THEN PlayerGet(ps, d[i]) ELSE NoPlayer]

\* for (const id of dirty) { const p = players.get(id); if (p) updates.push(p) }
Updates(d, ps) ==
  LET live == SelectSeq(d, LAMBDA id : Has(ps, id))
  IN [i \in 1..Len(live) |-> PlayerGet(ps, live[i])]

\* sockets.values() in insertion order: ids are handed out in increasing order
RECURSIVE SocketSeq(_)
SocketSeq(S) ==
  IF S = {} THEN <<>>
  ELSE LET m == CHOOSE a \in S : \A b \in S : a <= b
       IN <<m>> \o SocketSeq(S \ {m})

\* faulty variant: a players message is not sent to the connections it is about
SendAllOthers(targets, msg) ==
  LET skip == IF msg.type = "players"
              THEN { msg.players[i].id : i \in DOMAIN msg.players } ELSE {}
      q == SocketSeq(targets \ skip)
  IN [i \in 1..Len(q) |-> [to |-> q[i], msg |-> msg]]

\* for (const ws of <targets>) ws.send(msg)
SendAll(targets, msg) ==
  LET q == SocketSeq(targets)
  IN [i \in 1..Len(q) |-> [to |-> q[i], msg |-> msg]]

\* faulty variant: delete() that also removes the older sockets
SocketDeleteUpTo(S, id) == { s \in S : s > id }

\* sockets.delete(id)
SocketDelete(S, id) == S \ {id}

\* ------------------------------------------------------------- network
\* the connections the server has closed
closed == (1..(nextId - 1)) \ sockets

\* the connections whose other end is an open socket of a browser client
ClientEnds == { conn[c] : c \in { d \in Clients : st[d] = "open" } }

\* the sends of one handler reach the inboxes of the open client ends
RECURSIVE Deliver(_, _, _)
Deliver(inb, msgs, ends) ==
  IF msgs = <<>> THEN inb
  ELSE LET s == Head(msgs)
           nxt == IF s.to \in ends
                  THEN [inb EXCEPT ![s.to] = Append(@, s.msg)]
                  ELSE inb
       IN Deliver(nxt, Tail(msgs), ends)

\* a payload that is not JSON text
Unparseable == [raw |-> "{"]

\* JSON.parse(raw) returns for the text of an object and throws otherwise
Parses(msg) == "raw" \notin DOMAIN msg

\* what a peer may send: a full move, a move without the optional fields,
\* and a message of another type
PeerMsgs ==
  { [type |-> "move", x |-> 64, y |-> 96, name |-> "Bob", facing |-> "up",
     walking |-> TRUE],
    [type |-> "move", x |-> 32, y |-> 224],
    [type |-> "chat", text |-> "hi"],
    Unparseable }

\* ------------------------------------------------------ client data structures
\* faulty variant: set() that drops every other key
MapSetOnly(m, k, v) == [j \in {k} |-> v]

\* others.set(id, v)
MapSet(m, k, v) == [j \in (DOMAIN m) \cup {k} |-> IF j = k THEN v ELSE m[j]]
\* faulty variant: onclose that keeps the remote avatars
MapKeep(m) == m

\* others.clear()
MapClear(m) == <<>>
\* faulty variant: delete() that removes nothing
MapDeleteNone(m, k) == m

\* others.delete(id)
MapDelete(m, k) == [j \in (DOMAIN m) \ {k} |-> m[j]]

OtherOf(p) ==
  [x |-> p.x, y |-> p.y, name |-> p.name,
   facing |-> Get(p, "facing", "down"), walking |-> Get(p, "walking", FALSE)]

\* faulty variant: the server's echo of the client itself is stored too
UpsertAll(m, p, me) == MapSet(m, p.id, OtherOf(p))

\* if (p.id !== myId) others.set(p.id, {...})
Upsert(m, p, me) == IF p.id # me THEN MapSet(m, p.id, OtherOf(p)) ELSE m

\* for (const p of msg.players) ...
RECURSIVE ApplyPlayers(_, _, _)
ApplyPlayers(m, ps, me) ==
  IF ps = <<>> THEN m
  ELSE ApplyPlayers(Upsert(m, Head(ps), me), Tail(ps), me)

\* faulty variant: nothing is suppressed
SuppressedNever(x, y, lx, ly, w) == FALSE

\* sendPosition's second early return
Suppressed(x, y, lx, ly, w) == x = lx /\ y = ly /\ ~w

\* one run of a handler: keys are the keys held in a frame, at the position
\* the frame started from, err the exception that left the handler uncaught
Ev(op, id, cl, msg) ==
  [op |-> op, id |-> id, cl |-> cl, msg |-> msg, keys |-> {}, at |-> <<0, 0>>,
   err |-> "none"]

\* ------------------------------------------------------------------ Init
Init ==
  /\ players = <<>>
  /\ sockets = {}
  /\ dirty = <<>>
  /\ nextId = 1
  /\ inbox = [i \in ConnIds |-> <<>>]
  /\ c2s = [i \in ConnIds |-> <<>>]
  /\ sends = 0
  /\ st = [c \in Clients |-> "connecting"]
  /\ conn = [c \in Clients |-> 0]
  /\ wsState = [c \in Clients |-> "CONNECTING"]
  /\ myId = [c \in Clients |-> 0]
  /\ px = [c \in Clients |-> 10 * TILE]
  /\ py = [c \in Clients |-> 7 * TILE]
  /\ facing = [c \in Clients |-> "down"]
  /\ walking = [c \in Clients |-> FALSE]
  /\ currentRoom = [c \in Clients |-> detectRoom(10 * TILE, 7 * TILE)]
  /\ others = [c \in Clients |-> <<>>]
  /\ lastSentX = [c \in Clients |-> 10 * TILE]
  /\ lastSentY = [c \in Clients |-> 7 * TILE]
  /\ frames = [c \in Clients |-> 0]
  /\ connects = [c \in Clients |-> 1]
  /\ got = [c \in Clients |-> 0]
  /\ sentFacing = [c \in Clients |-> "down"]
  /\ sentWalking = [c \in Clients |-> FALSE]
  /\ lastMove = [i \in ConnIds |-> NoPlayer]
  /\ unrelayed = [i \in ConnIds |-> 0]
  /\ relayed = [i \in ConnIds |-> 0]
  /\ ev = Ev("init", 0, "-", NoMsg)
  /\ out = <<>>

\* --------------------------------------------------------- server actions
\* faulty variant: tick without the early return on an empty dirty set
TickSendsAlways(d, ps, socks) == SendAll(socks, PlayersMsg(Updates(d, ps)))

\* the sends of one tick: none when dirty is empty, else one message with
\* the live dirty players to every socket
TickSends(d, ps, socks) ==
  IF d = <<>> THEN <<>> ELSE SendAll(socks, PlayersMsg(Updates(d, ps)))

\* setInterval(() => {...}, TICK_MS)
Tick ==
  /\ out' = TickSends(dirty, players, sockets)
  /\ dirty' = DirtyClear(dirty)
  /\ inbox' = Deliver(inbox, out', ClientEnds)
  /\ relayed' = unrelayed
  /\ unrelayed' = [i \in ConnIds |-> 0]
  /\ ev' = Ev("tick", 0, "-", NoMsg)
  /\ UNCHANGED <<players, sockets, nextId, c2s, sends, cliVars, sentFacing,
                 sentWalking, lastMove>>

\* faulty variant: the snapshot is sent before the welcome
OpenSendsSwapped(id) ==
  << [to |-> id, msg |-> FullMsg(players)], [to |-> id, msg |-> Welcome(id)] >>

\* the sends of websocket.open(ws) for connection id
OpenSends(id) ==
  << [to |-> id, msg |-> Welcome(id)], [to |-> id, msg |-> FullMsg(players)] >>

\* fetch() upgrades a request under a fresh id, then websocket.open(ws) runs
ServerOpen(id, ends) ==
  /\ id = nextId
  /\ id <= MaxConns
  /\ nextId' = id + 1
  /\ sockets' = sockets \cup {id}
  /\ out' = OpenSends(id)
  /\ inbox' = Deliver(inbox, out', ends)
  /\ UNCHANGED <<players, dirty, c2s, sends, sentFacing, sentWalking,
                 lastMove, unrelayed, relayed>>

\* the socket of browser client c is accepted and becomes OPEN
Open(c) ==
  /\ st[c] = "connecting"
  /\ \E id \in ConnIds :
       /\ ServerOpen(id, ClientEnds \cup {id})
       /\ conn' = [conn EXCEPT ![c] = id]
       /\ ev' = Ev("open", id, c, NoMsg)
  /\ st' = [st EXCEPT ![c] = "open"]
  /\ wsState' = [wsState EXCEPT ![c] = IF @ = "CONNECTING" THEN "OPEN" ELSE @]
  /\ got' = [got EXCEPT ![c] = 0]
  /\ UNCHANGED <<myId, px, py, facing, walking, currentRoom, others,
                 lastSentX, lastSentY, frames, connects>>

\* a peer connects
PeerOpen ==
  /\ \E id \in ConnIds :
       /\ ServerOpen(id, ClientEnds)
       /\ ev' = Ev("open", id, "-", NoMsg)
  /\ UNCHANGED cliVars

\* websocket.message(ws, raw) with raw the text of msg; JSON.parse throws a
\* SyntaxError on a payload that is not JSON, which leaves the handler before
\* it has touched anything (the runtime goes on with the next event)
Handle(id, msg) ==
  /\ id \in sockets
  /\ IF Parses(msg) /\ msg.type = "move"
     THEN /\ players' = PlayerSet(players, PlayerOf(id, msg))
          /\ dirty' = DirtyAdd(dirty, id)
          /\ lastMove' = [lastMove EXCEPT ![id] = PlayerOf(id, msg)]
          /\ unrelayed' = [unrelayed EXCEPT ![id] = IF @ < 2 THEN @ + 1 ELSE @]
     ELSE UNCHANGED <<players, dirty, lastMove, unrelayed>>
  /\ ev' = [Ev("message", id, "-", msg) EXCEPT
              !.err = IF Parses(msg) THEN "none" ELSE "SyntaxError"]
  /\ out' = <<>>
  /\ UNCHANGED <<sockets, nextId, inbox, cliVars, sentFacing, sentWalking,
                 relayed>>

\* a message of a browser client arrives
Message(id) ==
  /\ c2s[id] # <<>>
  /\ Handle(id, Head(c2s[id]))
  /\ c2s' = [c2s EXCEPT ![id] = Tail(@)]
  /\ UNCHANGED sends

\* a message of a peer arrives
PeerMessage(id, limit) ==
  /\ id \notin { conn[c] : c \in Clients }
  /\ sends < limit
  /\ sends' = sends + 1
  /\ \E msg \in PeerMsgs : Handle(id, msg)
  /\ UNCHANGED c2s

\* websocket.close(ws)
Close(id) ==
  /\ id \in sockets
  /\ players' = PlayerDelete(players, id)
  /\ sockets' = SocketDelete(sockets, id)
  /\ out' = SendAll(sockets', Leave(id))
  /\ inbox' = Deliver(inbox, out', ClientEnds)
  /\ c2s' = [c2s EXCEPT ![id] = <<>>]
  /\ lastMove' = [lastMove EXCEPT ![id] = NoPlayer]
  /\ ev' = Ev("close", id, "-", NoMsg)
  /\ UNCHANGED <<dirty, nextId, sends, cliVars, sentFacing, sentWalking,
                 unrelayed, relayed>>

\* --------------------------------------------------------- client actions
\* ws.onmessage
OnMessage(c) ==
  /\ st[c] = "open"
  /\ inbox[conn[c]] # <<>>
  /\ LET msg == Head(inbox[conn[c]])
         me == IF msg.type = "welcome" THEN msg.id ELSE myId[c]
     IN
     /\ myId' = [myId EXCEPT ![c] = me]
     /\ others' = [others EXCEPT ![c] =
          IF msg.type = "players" THEN ApplyPlayers(@, msg.players, me)
          ELSE IF msg.type = "leave" THEN MapDelete(@, msg.id)
          ELSE @]
     /\ ev' = Ev("onmessage", conn[c], c, msg)
  /\ inbox' = [inbox EXCEPT ![conn[c]] = Tail(@)]
  /\ got' = [got EXCEPT ![c] = IF @ < 2 THEN @ + 1 ELSE @]
  /\ UNCHANGED <<srvVars, c2s, sends, st, conn, wsState, px, py, facing,
                 walking, currentRoom, lastSentX, lastSentY, frames, connects,
                 sentFacing,
                 sentWalking, lastMove, unrelayed, relayed, out>>

\* ws.onclose: the socket of the latest connect() closes, or fails to open
OnClose(c) ==
  /\ st[c] \in {"connecting", "open"}
  /\ others' = [others EXCEPT ![c] = MapClear(@)]
  /\ st' = [st EXCEPT ![c] = "waiting"]
  /\ wsState' = [wsState EXCEPT ![c] = "CLOSED"]
  /\ inbox' = IF st[c] = "open" THEN [inbox EXCEPT ![conn[c]] = <<>>]
              ELSE inbox
  /\ ev' = Ev("onclose", conn[c], c, NoMsg)
  /\ UNCHANGED <<srvVars, c2s, sends, conn, myId, px, py, facing, walking,
                 currentRoom, lastSentX, lastSentY, frames, connects, got,
                 sentFacing,
                 sentWalking, lastMove, unrelayed, relayed, out>>

\* setTimeout(connect, 1000) fires: connect(), whose result is dropped
Reconnect(c) ==
  /\ st[c] = "waiting"
  /\ connects[c] < MaxConnects
  /\ connects' = [connects EXCEPT ![c] = @ + 1]
  /\ st' = [st EXCEPT ![c] = "connecting"]
  /\ conn' = [conn EXCEPT ![c] = 0]
  /\ ev' = Ev("connect", 0, c, NoMsg)
  /\ UNCHANGED <<srvVars, netVars, wsState, myId, px, py, facing, walking,
                 currentRoom, others, lastSentX, lastSentY, frames, got,
                 sentFacing, sentWalking, lastMove, unrelayed, relayed, out>>

\* update() with the keys held, sendPosition() included
Update(c, keys) ==
  LET x == StepX(px[c], py[c], keys)
      y == StepY(px[c], py[c], keys)
      f == NewFacing(facing[c], keys)
      w == Moved(keys)
      send == /\ wsState[c] = "OPEN"
              /\ ~Suppressed(x, y, lastSentX[c], lastSentY[c], w)
      msg == MoveMsg(x, y, f, w)
  IN
  /\ px' = [px EXCEPT ![c] = x]
  /\ py' = [py EXCEPT ![c] = y]
  /\ facing' = [facing EXCEPT ![c] = f]
  /\ walking' = [walking EXCEPT ![c] = w]
  /\ currentRoom' = [currentRoom EXCEPT ![c] = detectRoom(x, y)]
  /\ IF send
     THEN /\ lastSentX' = [lastSentX EXCEPT ![c] = x]
          /\ lastSentY' = [lastSentY EXCEPT ![c] = y]
          /\ sentFacing' = [sentFacing EXCEPT ![c] = f]
          /\ sentWalking' = [sentWalking EXCEPT ![c] = w]
          /\ c2s' = IF conn[c] \in sockets
                    THEN [c2s EXCEPT ![conn[c]] = Append(@, msg)]
                    ELSE c2s
          /\ ev' = [Ev("update", conn[c], c, msg) EXCEPT
                      !.keys = keys, !.at = <<px[c], py[c]>>]
     ELSE /\ UNCHANGED <<lastSentX, lastSentY, sentFacing, sentWalking, c2s>>
          /\ ev' = [Ev("update", 0, c, NoMsg) EXCEPT
                      !.keys = keys, !.at = <<px[c], py[c]>>]
  /\ UNCHANGED <<srvVars, inbox, sends, st, conn, wsState, myId, others, got,
                 connects,
                 lastMove, unrelayed, relayed, out>>

\* one display frame of client c; the frames that change the client or
\* send are counted against the frame budget
Frame(c, limit) ==
  /\ frames[c] < limit
  /\ \E keys \in KeySets : Update(c, keys)
  /\ frames' = [frames EXCEPT ![c] =
       IF <<px, py, facing, walking, c2s>>' = <<px, py, facing, walking, c2s>>
       THEN @ ELSE @ + 1]

\* the browser client, the peers and the server
Next ==
  \/ Tick
  \/ \E c \in Clients : Open(c)
  \/ PeerOpen
  \/ \E id \in ConnIds : Message(id)
  \/ \E id \in ConnIds : PeerMessage(id, SysSends)
  \/ \E id \in ConnIds : Close(id)
  \/ \E c \in Clients : OnMessage(c)
  \/ \E c \in Clients : OnClose(c)
  \/ \E c \in Clients : Reconnect(c)
  \/ \E c \in Clients : Frame(c, SysFrames)

Spec == Init /\ [][Next]_vars

\* the browser client and the server, without peers
NextClient ==
  \/ Tick
  \/ \E c \in Clients : Open(c)
  \/ \E id \in ConnIds : Message(id)
  \/ \E id \in ConnIds : Close(id)
  \/ \E c \in Clients : OnMessage(c)
  \/ \E c \in Clients : OnClose(c)
  \/ \E c \in Clients : Reconnect(c)
  \/ \E c \in Clients : Frame(c, MaxFrames)

SpecClient == Init /\ [][NextClient]_vars

\* setTimeout(connect, 1000): a pending timer fires
FairSpecClient == SpecClient /\ \A c \in Clients : WF_vars(Reconnect(c))

\* the server with peers alone
NextServer ==
  \/ Tick
  \/ PeerOpen
  \/ \E id \in ConnIds : PeerMessage(id, MaxSends)
  \/ \E id \in ConnIds : Close(id)

SpecServer == Init /\ [][NextServer]_vars

\* the game loop alone: requestAnimationFrame(update) with any keys held,
\* before the socket has opened
NextMove ==
  \E c \in Clients : \E keys \in MoveKeys : Update(c, keys) /\ UNCHANGED frames

SpecMove == Init /\ [][NextMove]_vars

\* ------------------------------------------------------------ properties
\* the players of the messages a handler has sent
IdsOf(ps) == { ps[i].id : i \in DOMAIN ps }
SendsTo(msgs, id) == SelectSeq(msgs, LAMBDA s : s.to = id)
IsIncremental(m) == m.type = "players" /\ "full" \notin DOMAIN m

\* C1: the players message of a tick holds at most one entry per connection
\* id, and every entry is the Player of that connection's last accepted move.
C1_TickEntries ==
  [][ev'.op = "tick" =>
       \A k \in DOMAIN out' :
         LET ps == out'[k].msg.players IN
         /\ \A i, j \in DOMAIN ps : ps[i].id = ps[j].id => i = j
         /\ \A i \in DOMAIN ps : ps[i] = lastMove[ps[i].id]]_vars

\* a tick has relayed a connection that moved twice or more since the tick
\* before
C1_Witness ==
  /\ ev.op = "tick"
  /\ \E k \in DOMAIN out : \E i \in DOMAIN out[k].msg.players :
       relayed[out[k].msg.players[i].id] = 2

\* C2: after connection A has closed, no tick's players message has an entry
\* for A; the close sends exactly one leave for A to every connection that
\* stays open and none to A, and a leave is sent at no other time.
C2_CloseThenTick ==
  [][/\ closed \subseteq closed'
     /\ ev'.op = "tick" =>
          \A k \in DOMAIN out' : IdsOf(out'[k].msg.players) \cap closed = {}
     /\ ev'.op = "close" =>
          /\ ev'.id \in sockets
          /\ \A c \in sockets \ {ev'.id} :
               SendsTo(out', c) = << [to |-> c, msg |-> Leave(ev'.id)] >>
          /\ SendsTo(out', ev'.id) = <<>>
     /\ ev'.op # "close" =>
          \A k \in DOMAIN out' : out'[k].msg.type # "leave"]_vars

\* a tick has fired, with messages sent, that found a closed connection in
\* the dirty set
C2_Witness ==
  /\ ev.op = "tick"
  /\ out # <<>>
  /\ \E a \in closed : relayed[a] > 0

\* C3: a tick that finds the dirty set empty sends nothing and changes
\* neither the registry, the sockets nor the dirty set.
C3_IdleTick ==
  [][ev'.op = "tick" /\ dirty = <<>> =>
       /\ out' = <<>>
       /\ UNCHANGED <<players, sockets, dirty, inbox>>]_vars

\* an idle tick has fired while connections were open
C3_Witness ==
  /\ ev.op = "tick"
  /\ out = <<>>
  /\ sockets # {}
  /\ players # <<>>

\* C4: the handler that opens connection id sends it welcome(id) and then
\* the full snapshot of the registry as it is, and nothing else is ever sent
\* to a connection before that or carries welcome or full afterwards.
C4_OpenFirst ==
  [][\A id \in ConnIds :
       /\ id \notin sockets /\ id \in sockets' =>
            SendsTo(out', id) =
              << [to |-> id, msg |-> [type |-> "welcome", id |-> id]],
                 [to |-> id, msg |-> [type |-> "players", players |-> players,
                                      full |-> TRUE]] >>
       /\ id \in sockets =>
            \A k \in DOMAIN out' :
              out'[k].to = id =>
                out'[k].msg.type = "leave" \/ IsIncremental(out'[k].msg)
       /\ id \notin sockets' => SendsTo(out', id) = <<>>]_vars

\* a connection has opened while the registry held an entry
C4_Witness ==
  /\ ev.op = "open"
  /\ Len(out) = 2
  /\ out[2].msg.players # <<>>

\* C5: a tick that finds the dirty set non-empty sends one and the same
\* incremental players message to every open connection, once each, those
\* with an entry in the message included.
C5_Broadcast ==
  [][ev'.op = "tick" /\ dirty # <<>> =>
       /\ \A c \in sockets : Len(SendsTo(out', c)) = 1
       /\ \A k \in DOMAIN out' :
            /\ out'[k].to \in sockets
            /\ IsIncremental(out'[k].msg)
            /\ out'[k].msg = out'[1].msg]_vars

\* a tick has sent its message to two connections, one of them in it
C5_Witness ==
  /\ ev.op = "tick"
  /\ Len(out) >= 2
  /\ \E k \in DOMAIN out : out[k].to \in IdsOf(out[k].msg.players)

\* C6: the tick that follows an accepted move of an open connection A sends
\* every other open connection a players message with A's moved state.
C6_NextTickRelays ==
  [][ev'.op = "tick" =>
       \A a \in sockets : unrelayed[a] > 0 =>
         \A c \in sockets \ {a} :
           \E k \in DOMAIN out' :
             /\ out'[k].to = c
             /\ out'[k].msg.type = "players"
             /\ \E i \in DOMAIN out'[k].msg.players :
                  out'[k].msg.players[i] = lastMove[a]]_vars

\* a tick has relayed the move of one open connection to another
C6_Witness ==
  /\ ev.op = "tick"
  /\ \E a \in sockets : \E k \in DOMAIN out :
       /\ relayed[a] > 0
       /\ out[k].to # a
       /\ lastMove[a] \in Range(out[k].msg.players)

\* C7: no inbound message changes the local player's position, facing or
\* walking, and others never has an entry under the client's own id.
C7_OwnStateKept ==
  /\ [](\A c \in Clients : myId[c] \notin DOMAIN others[c])
  /\ [][\A c \in Clients :
          ev'.op = "onmessage" /\ ev'.cl = c =>
            UNCHANGED <<px[c], py[c], facing[c], walking[c]>>]_vars

\* the client has handled a players message with its own entry, and holds
\* the avatar of a peer
C7_Witness ==
  \E c \in Clients :
    /\ ev.op = "onmessage" /\ ev.cl = c
    /\ ev.msg.type = "players"
    /\ myId[c] \in IdsOf(ev.msg.players)
    /\ others[c] # <<>>

\* C8 (as claimed): on an open connection every frame that leaves position,
\* facing or walking different from the last move sent sends a move.
C8_MoveOnChange ==
  [][\A c \in Clients :
       /\ ev'.op = "update" /\ ev'.cl = c
       /\ st[c] = "open"
       /\ <<px[c], py[c], facing[c], walking[c]>>' #
            <<lastSentX[c], lastSentY[c], sentFacing[c], sentWalking[c]>>
       => ev'.msg.type = "move"]_vars

C10_Reconnect ==
  /\ [](\A c \in Clients : others[c] # <<>> => st[c] = "open" /\ got[c] = 2)
  /\ [][\A c \in Clients :
          /\ ev'.op = "onclose" /\ ev'.cl = c =>
               others'[c] = <<>> /\ st'[c] = "waiting"
          /\ st'[c] # st[c] =>
               <<st[c], st'[c]>> \in
                 { <<"connecting", "open">>, <<"connecting", "waiting">>,
                   <<"open", "waiting">>, <<"waiting", "connecting">> }
          /\ st[c] # "open" /\ st'[c] = "open" =>
               /\ conn'[c] \notin 1..(nextId - 1)
               /\ inbox'[conn'[c]] =
                    << [type |-> "welcome", id |-> conn'[c]],
                       [type |-> "players", players |-> players,
                        full |-> TRUE] >>]_vars
  /\ \A c \in Clients :
       (st[c] = "waiting" /\ connects[c] < MaxConnects) ~> st[c] = "connecting"

\* after a close and a reconnect the client has handled the welcome and the
\* snapshot of its second socket
C10_Witness ==
  \E c \in Clients :
    /\ connects[c] = 2
    /\ st[c] = "open"
    /\ got[c] = 2
    /\ myId[c] = conn[c]
    /\ myId[c] = 2

\* C11: handling a players message, full or incremental, sets the entries of
\* the ids in the message other than the client's own to the message's
\* values and keeps every other entry of others as it is; handling a leave
\* removes the entry of the named id, if any, and keeps every other entry.
C11_UpsertOnly ==
  [][\A c \in Clients :
       ev'.op = "onmessage" /\ ev'.cl = c =>
         LET m == ev'.msg
             o == others[c]
             n == others'[c]
         IN
         /\ m.type = "players" =>
              LET named == IdsOf(m.players) \ {myId[c]} IN
              /\ DOMAIN n = DOMAIN o \cup named
              /\ \A k \in DOMAIN o \ named : n[k] = o[k]
              /\ \A i \in DOMAIN m.players :
                   m.players[i].id # myId[c] =>
                     n[m.players[i].id] =
                       [x |-> m.players[i].x, y |-> m.players[i].y,
                        name |-> m.players[i].name,
                        facing |-> m.players[i].facing,
                        walking |-> m.players[i].walking]
         /\ m.type = "leave" =>
              /\ DOMAIN n = DOMAIN o \ {m.id}
              /\ \A k \in DOMAIN n : n[k] = o[k]
         /\ m.type = "welcome" => n = o]_vars

\* the client has handled a players message that does not name an avatar it
\* holds, and still holds that avatar
C11_Witness ==
  \E c \in Clients :
    /\ ev.op = "onmessage" /\ ev.cl = c
    /\ ev.msg.type = "players"
    /\ ev.msg.players # <<>>
    /\ \E k \in DOMAIN others[c] : k \notin IdsOf(ev.msg.players)

\* C12: a move from connection A leaves exactly one entry for A in the
\* registry, with id A, the message's x and y whatever A's entry was before,
\* facing "down", walking false and name "???" where the message has none,
\* and adds A to the dirty set; every other entry is unchanged; any other
\* message changes neither the registry nor the dirty set.
C12_MoveOverwrites ==
  [][ev'.op = "message" =>
       LET a == ev'.id
           m == ev'.msg
       IN
       IF "type" \in DOMAIN m /\ m.type = "move"
       THEN /\ \E i \in DOMAIN players' :
                 /\ players'[i] =
                      [id |-> a, x |-> m.x, y |-> m.y,
                       name |-> IF "name" \in DOMAIN m THEN m.name ELSE "???",
                       facing |-> IF "facing" \in DOMAIN m THEN m.facing
                                  ELSE "down",
                       walking |-> IF "walking" \in DOMAIN m THEN m.walking
                                   ELSE FALSE]
                 /\ \A j \in DOMAIN players' : players'[j].id = a => j = i
            /\ Range(dirty') = Range(dirty) \cup {a}
            /\ { q \in Range(players') : q.id # a } =
                 { q \in Range(players) : q.id # a }
       ELSE UNCHANGED <<players, dirty>>]_vars

\* a move without the optional fields has replaced the entry of a connection
\* that was elsewhere, while another connection held an entry
C12_Witness ==
  /\ ev.op = "message"
  /\ "type" \in DOMAIN ev.msg /\ ev.msg.type = "move"
  /\ "facing" \notin DOMAIN ev.msg
  /\ unrelayed[ev.id] = 2
  /\ Len(players) >= 2

\* C13 (as claimed): every open connection has an entry in the registry, and
\* the snapshot sent to a connection that opens has an entry for every
\* connection open before it.
C13_EntryWhileOpen ==
  /\ [](\A id \in sockets : Has(players, id))
  /\ [][ev'.op = "open" =>
          sockets \subseteq IdsOf(out'[2].msg.players)]_vars

\* C14 (as claimed): a tick finds every id of the dirty set in the registry,
\* and leaves the dirty set empty.
C14_DirtyLive ==
  [][ev'.op = "tick" =>
       /\ Range(dirty) \subseteq IdsOf(players)
       /\ dirty' = <<>>]_vars

\* C14 (amended): every id of the dirty set has had a move accepted since
\* the last tick and either has an entry in the registry or belongs to a
\* connection that has closed since; a tick sends the entries of the former,
\* skips the latter, and leaves the dirty set empty.
C14_DirtyDrained ==
  /\ [](\A id \in Range(dirty) :
          /\ unrelayed[id] > 0
          /\ IF id \in closed THEN ~Has(players, id) ELSE Has(players, id))
  /\ [][ev'.op = "tick" =>
          /\ \A k \in DOMAIN out' :
               IdsOf(out'[k].msg.players) = Range(dirty) \ closed
          /\ dirty' = <<>>]_vars

\* a tick has drained a dirty set that held a closed connection and an open
\* one
C14_Witness ==
  /\ ev.op = "tick"
  /\ dirty = <<>>
  /\ \E a \in closed : relayed[a] > 0
  /\ \E b \in sockets : relayed[b] > 0 /\ Has(players, b)

\* C17 (as claimed): the handler drops a payload that is not JSON without an
\* error, changing neither the registry, the dirty set nor the sockets.
C17_DropSilently ==
  [][ev'.op = "message" /\ "raw" \in DOMAIN ev'.msg =>
       /\ ev'.err = "none"
       /\ UNCHANGED <<players, dirty, sockets>>]_vars

\* C18: the close of connection A removes the socket of A and the entry of
\* A and nothing else, and sends the leave to every connection that stays
\* open; every later broadcast, of a tick or of a close, reaches every
\* connection that is open, once.
C18_CloseIsolated ==
  [][/\ ev'.op = "close" =>
          /\ sockets' = sockets \ {ev'.id}
          /\ \A b \in ConnIds \ {ev'.id} :
               /\ Has(players', b) <=> Has(players, b)
               /\ Has(players, b) =>
                    PlayerGet(players', b) = PlayerGet(players, b)
          /\ ~Has(players', ev'.id)
     /\ ev'.op \in {"tick", "close"} /\ out' # <<>> =>
          \A b \in sockets' : Len(SendsTo(out', b)) = 1]_vars

\* a connection with an entry has closed while another connection with an
\* entry stayed open and was sent the leave
C18_Witness ==
  /\ ev.op = "close"
  /\ unrelayed[ev.id] > 0
  /\ \E b \in sockets :
       /\ Has(players, b)
       /\ SendsTo(out, b) = << [to |-> b, msg |-> Leave(ev.id)] >>

\* C19 (as claimed): the players message of a tick has at least one entry.
C19_NeverEmpty ==
  [][ev'.op = "tick" =>
       \A k \in DOMAIN out' : out'[k].msg.players # <<>>]_vars

\* C19 (amended): the players message of a tick has one entry for every
\* dirty connection that is still open; its list is empty exactly when the
\* dirty set is not empty and every connection in it has closed.
C19_EmptyWhenAllClosed ==
  [][ev'.op = "tick" =>
       /\ \A k \in DOMAIN out' :
            /\ Len(out'[k].msg.players) = Cardinality(Range(dirty) \ closed)
            /\ out'[k].msg.players = <<>> <=> Range(dirty) \subseteq closed
       /\ dirty # <<>> /\ sockets # {} => out' # <<>>]_vars

\* a tick has sent a players message with an empty list
C19_Witness ==
  /\ ev.op = "tick"
  /\ out # <<>>
  /\ out[1].msg.players = <<>>

\* the deltas of a frame with the keys held
DeltaX(keys) ==
  (IF Right(keys) THEN SPEED ELSE 0) - (IF Left(keys) THEN SPEED ELSE 0)
DeltaY(keys) ==
  (IF Down(keys) THEN SPEED ELSE 0) - (IF Up(keys) THEN SPEED ELSE 0)

\* C15: in a frame with one horizontal and one vertical direction held whose
\* combined target cannot be occupied, the avatar advances by SPEED along one
\* axis whose target alone can be occupied and keeps the other coordinate,
\* and stays where it is when neither single-axis target can be occupied.
C15_Slide ==
  [][\A c \in Clients :
       ev'.op = "update" /\ ev'.cl = c =>
         LET x == px[c]
             y == py[c]
             nx == px[c] + DeltaX(ev'.keys)
             ny == py[c] + DeltaY(ev'.keys)
         IN nx # x /\ ny # y /\ ~canMove(nx, ny) =>
              IF canMove(nx, y) \/ canMove(x, ny)
              THEN \/ px'[c] = nx /\ py'[c] = y /\ canMove(nx, y)
                   \/ px'[c] = x /\ py'[c] = ny /\ canMove(x, ny)
              ELSE px'[c] = x /\ py'[c] = y]_vars

\* a diagonal frame against a wall has moved the avatar along the wall: the
\* horizontal target was blocked and the vertical delta was committed
C15_Witness ==
  \E c \in Clients :
    /\ ev.op = "update" /\ ev.cl = c
    /\ DeltaX(ev.keys) # 0 /\ DeltaY(ev.keys) # 0
    /\ ~canMove(ev.at[1] + DeltaX(ev.keys), ev.at[2])
    /\ canMove(ev.at[1], ev.at[2] + DeltaY(ev.keys))
    /\ px[c] = ev.at[1]
    /\ py[c] = ev.at[2] + DeltaY(ev.keys)

\* C16 (as claimed): the horizontal delta is committed iff (newX, oldY) can
\* be occupied, the vertical delta iff (oldX, newY) can be occupied.
C16_OldX ==
  [][\A c \in Clients :
       ev'.op = "update" /\ ev'.cl = c =>
         LET x == px[c]
             y == py[c]
             nx == px[c] + DeltaX(ev'.keys)
             ny == py[c] + DeltaY(ev'.keys)
         IN /\ px'[c] = IF canMove(nx, y) THEN nx ELSE x
            /\ py'[c] = IF canMove(x, ny) THEN ny ELSE y]_vars

\* C16 (amended): the horizontal delta is committed iff (newX, oldY) can be
\* occupied, the vertical delta iff (x, newY) can be occupied for the x the
\* horizontal attempt has left: newX if it was committed, oldX if not.
C16_NewX ==
  [][\A c \in Clients :
       ev'.op = "update" /\ ev'.cl = c =>
         LET x == px[c]
             y == py[c]
             nx == px[c] + DeltaX(ev'.keys)
             ny == py[c] + DeltaY(ev'.keys)
         IN /\ px'[c] = IF canMove(nx, y) THEN nx ELSE x
            /\ py'[c] = IF canMove(px'[c], ny) THEN ny ELSE y]_vars

\* a diagonal frame at the corner of a wall: both single-axis targets could
\* be occupied, the combined one could not; the horizontal delta was
\* committed and the vertical one was not
C16_Witness ==
  \E c \in Clients :
    /\ ev.op = "update" /\ ev.cl = c
    /\ DeltaX(ev.keys) # 0 /\ DeltaY(ev.keys) # 0
    /\ canMove(ev.at[1] + DeltaX(ev.keys), ev.at[2])
    /\ canMove(ev.at[1], ev.at[2] + DeltaY(ev.keys))
    /\ ~canMove(ev.at[1] + DeltaX(ev.keys), ev.at[2] + DeltaY(ev.keys))
    /\ px[c] = ev.at[1] + DeltaX(ev.keys)
    /\ py[c] = ev.at[2]

\* client c has been welcomed on a connection that is open at both ends and
\* has handled every message sent to it
Settled(c) ==
  /\ st[c] = "open"
  /\ conn[c] \in sockets
  /\ myId[c] = conn[c]
  /\ inbox[conn[c]] = <<>>

\* message m is about connection a
Mentions(m, a) ==
  \/ m.type = "leave" /\ m.id = a
  \/ m.type = "players" /\ a \in IdsOf(m.players)

\* connection a has closed, client c holds no avatar of a and no message on
\* its way to c is about a
Gone(c, a) ==
  /\ a \in closed
  /\ a \notin DOMAIN others[c]
  /\ st[c] = "open" =>
       \A k \in DOMAIN inbox[conn[c]] : ~Mentions(inbox[conn[c]][k], a)

\* C20: whenever a welcomed client on an open connection has handled every
\* message sent to it and the dirty set is empty, others has the keys of the
\* registry without the client's own id, with the x, y, name, facing and
\* walking of the registry; and once the client has handled the leave of
\* connection A, it holds no avatar of A and no message about A is on its
\* way, which stays so for ever.
C20_Converges ==
  /\ [](\A c \in Clients :
          Settled(c) /\ dirty = <<>> =>
            /\ DOMAIN others[c] = IdsOf(players) \ {myId[c]}
            /\ \A i \in DOMAIN players :
                 players[i].id # myId[c] =>
                   others[c][players[i].id] =
                     [x |-> players[i].x, y |-> players[i].y,
                      name |-> players[i].name, facing |-> players[i].facing,
                      walking |-> players[i].walking])
  /\ [][\A c \in Clients : \A a \in ConnIds :
          /\ ev'.op = "onmessage" /\ ev'.cl = c
               /\ ev'.msg = [type |-> "leave", id |-> a] => Gone(c, a)'
          /\ Gone(c, a) => Gone(c, a)']_vars

\* the client has handled the leave of a peer and is settled with the dirty
\* set empty, while the registry holds an entry under the client's id and an
\* entry that others mirrors
C20_Witness ==
  \E c \in Clients :
    /\ ev.op = "onmessage" /\ ev.cl = c
    /\ ev.msg.type = "leave"
    /\ Settled(c) /\ dirty = <<>>
    /\ Has(players, myId[c])
    /\ others[c] # <<>>

\* the pixel (cx, cy) lies in a cell of the map that is not a wall
Walkable(cx, cy) ==
  /\ cx >= 0 /\ cx < MAP_W * TILE
  /\ cy >= 0 /\ cy < MAP_H * TILE
  /\ map[cy \div TILE][cx \div TILE] = 0

\* C21: from the spawn position, after any frames with any keys held, the
\* four corners of the avatar, inset by 4 pixels, lie in cells of the map
\* that are not walls.
C21_NeverInWall ==
  \A c \in Clients :
    /\ Walkable(px[c] + 4, py[c] + 4)
    /\ Walkable(px[c] + TILE - 5, py[c] + 4)
    /\ Walkable(px[c] + 4, py[c] + TILE - 5)
    /\ Walkable(px[c] + TILE - 5, py[c] + TILE - 5)

\* a diagonal frame in a corner of two walls has left the avatar where it
\* was, away from the spawn position
C21_Witness ==
  \E c \in Clients :
    /\ ev.op = "update" /\ ev.cl = c
    /\ DeltaX(ev.keys) # 0 /\ DeltaY(ev.keys) # 0
    /\ ev.at = <<px[c], py[c]>>
    /\ px[c] # 10 * TILE /\ py[c] # 7 * TILE

\* C22 (as claimed): after a close and a reconnect, a frame that changes the
\* position while the new socket is open sends a move on the new connection.
C22_MovesAfterReconnect ==
  [][\A c \in Clients :
       /\ ev'.op = "update" /\ ev'.cl = c
       /\ connects[c] > 1 /\ st[c] = "open" /\ conn[c] \in sockets
       /\ <<px[c], py[c]>>' # <<px[c], py[c]>>
       => /\ ev'.msg.type = "move"
          /\ c2s'[conn[c]] = Append(c2s[conn[c]], ev'.msg)]_vars

====
